---- MODULE Spec2Model ----
(***************************************************************************)
(* The Pyodide worker (src/unnamed/part_000): one worker scope holding the *)
(* runtime handle self.pyodide, the CellState map self.cells and the flag  *)
(* self.packagesLoaded, driven by controller messages.  self.onmessage is  *)
(* an async function: every message starts its own activation of the      *)
(* handler, and an activation that reaches an await of a runtime operation *)
(* is suspended while the event loop delivers the next message.  Each      *)
(* action below is one event-loop task: the code from one resumption up to *)
(* the next await that needs the runtime or the network.                   *)
(***************************************************************************)
EXTENDS Integers, Sequences, FiniteSets, TLC

\* Number of controller messages delivered to the worker.
MaxMsgs == 2
\* Number of output chunks a single run of user code emits.
MaxChunks == 2
\* Number of progress messages loadPackagesFromImports reports per call.
MaxPkgMsgs == 1
\* Number of notifications the controller's side of the channel records.
MaxOutbox == 4

\* Number of calls of fetchPyodidePackages.
MaxListCalls == 2
\* Last reading of the clock.
MaxClock == 3
\* Number of calls of pyodide.loadPackage through the cached loader.
MaxLoadCalls == 2
\* Number of calls of the package manager's installers.
MaxInstallRuns == 1
MaxPuts == 2

Invs == 1..MaxMsgs

\* event.data.type (the last one stands for any type the switch does not know)
Types == {"initialize", "execute", "getState", "terminate", "unknown"}
\* event.data.id and event.data.code; "" is the falsy value of `id && code`
Ids == {"", "t1", "t2"}
Codes == {"", "code"}
\* the execute messages the controller sends
Requests == {<<"t1", "code">>, <<"t2", "code">>, <<"t1", "">>, <<"", "code">>}

Streams == {"stdout", "stderr"}

\* Texts and values are tokens that name their origin: src says what wrote
\* it, by the activation (0: the background preload), n the chunk's number.
Token(src, by, n) == [src |-> src, by |-> by, n |-> n]
\* JS null
Null == Token("null", 0, 0)
\* `\n${String(error)}` of the fault caught in activation h
FaultText(h) == Token("fault", h, 0)
\* the value runPythonAsync(code) resolves to in activation h
Value(h) == Token("value", h, 0)
\* the n-th chunk printed by the code of activation h
Chunk(h, n) == Token("chunk", h, n)
\* `[package] ${msg}`
PackageText(h, n) == Token("package", h, n)
\* the lines printed by the preload's own Python snippets
PreloadText(n) == Token("preload", 0, n)

\* type CellState
CellState(id, status, result, out, err) ==
    [id |-> id, status |-> status, result |-> result, stdout |-> out, stderr |-> err]
\* what `self.cells[id]` evaluates to when the map has no such key
Undefined == CellState("", "undefined", Null, <<>>, <<>>)
\* `{}`
EmptyCells == [x \in {} |-> Undefined]

VARIABLES
    pyodide,         \* self.pyodide: 0 (unset) or the runtime instance, named by the activation that loaded it
    cells,           \* self.cells: id -> CellState
    cellsDefined,    \* whether self.cells has been assigned at all
    packagesLoaded,  \* self.packagesLoaded
    closing,         \* self.close() has been called
    stdoutH,         \* per runtime instance: the activation whose setStdout handler is installed (0: default)
    stderrH,         \* per runtime instance: the activation whose setStderr handler is installed (0: default)
    inv,             \* the activations of self.onmessage, one per delivered message
    nmsg,            \* messages delivered so far
    pre,             \* per runtime instance: its preloadPackages() call, [pc, rt]: the await it
                     \* stands at and the instance its pending runPythonAsync was called on
    outbox,          \* self.postMessage: the notifications sent to the controller, in order
    handed,          \* history: the chunks the runtimes passed to installed handlers, in order
    lastRun,         \* history: per id, the activation that last assigned self.cells[id]
    \* the package manager's registry (src/unnamed/part_001, packageCache)
    loaded,          \* packageCache.loaded
    loading,         \* packageCache.loading
    failed,          \* packageCache.failed
    \* the package list sources (part_000 lines 22-65, part_001 lines 74-145)
    now,             \* Date.now(), in units of half the expiry time
    packageCache,    \* the worker's `let packageCache`
    localStorage,    \* the item lastPut under CACHE_KEY in window.localStorage
    listCall,        \* the calls of fetchPyodidePackages, of either implementation
    \* the wheel cache and the loader that uses it (part_001 lines 296-461, 541-567)
    wheels,          \* the object store 'package-wheels': name -> PackageWheelCache
    windowFetch,     \* window.fetch: 0 the browser's function, k the wrapper installed by loader call k
    loadCall,        \* the calls of the replaced pyodide.loadPackage
    storeRejected,   \* history: a store operation has returned a rejected promise
    lastPut,         \* history: per name, the payload put last since the store was cleared
    lastGet,         \* the last call of getCachedPackageWheel made directly, and what it gave
    loadedPackages,  \* pyodide.loadedPackages of the page's runtime
    \* the worker's preloadPackages() in detail (part_000 lines 88-186)
    selfFetch,       \* self.fetch: the number of wrappers around the worker's own fetch
    preload,         \* the call of preloadPackages(): where it stands and what it has installed
    \* the package manager's installers (part_001 lines 153-291)
    modules,         \* the page runtime's sys.modules, as checkMissingPackages reads it
    installRun,      \* the running call of preloadPyodidePackages or installMissingPackages
    installRuns,     \* calls made so far
    installLog,      \* history: the micropip.install calls, with what was loaded at the call
    \* cachePackageWheel step by step, called from several contexts (part_001 lines 296-354)
    putCall,         \* the calls of cachePackageWheel: where each stands and the record it built
    txQueue,         \* the readwrite transactions on the store that have not run yet, oldest first
    lastDone         \* history: per name, the call whose put request succeeded last

\* the worker scope
workerVars == <<pyodide, cells, cellsDefined, packagesLoaded, closing, stdoutH, stderrH,
                inv, nmsg, pre, outbox, handed, lastRun>>
\* const packageCache of the package manager
registryVars == <<loaded, loading, failed>>
\* everything outside the worker's message handling
\* the package list caches and the calls that use them
listVars == <<now, packageCache, localStorage, listCall>>
\* the wheel cache, the cached loader and the fetch it wraps
loadVars == <<wheels, windowFetch, loadCall, storeRejected, lastPut, lastGet, loadedPackages>>
\* the worker's package preload
preloadVars == <<selfFetch, preload>>
\* the package manager's installers and the runtime they install into
installVars == <<modules, installRun, installRuns, installLog>>
\* the calls of cachePackageWheel that run side by side
putVars == <<putCall, txQueue, lastDone>>
packageVars == <<registryVars, listVars, loadVars, preloadVars, installVars, putVars>>
\* the frames of the actions of each part
exceptRegistry == <<workerVars, listVars, loadVars, preloadVars, installVars, putVars>>
exceptList == <<workerVars, registryVars, loadVars, preloadVars, installVars, putVars>>
exceptLoad == <<workerVars, registryVars, listVars, preloadVars, installVars, putVars>>
exceptPreload == <<workerVars, registryVars, listVars, loadVars, installVars, putVars>>
exceptInstall == <<workerVars, registryVars, listVars, loadVars, preloadVars, putVars>>

vars == <<workerVars, packageVars>>

\* One activation of self.onmessage.
\*   pc     new | loading (await loadPyodide) | imports (await loadPackagesFromImports)
\*          | running (await runPythonAsync) | done (returned) | rejected (threw)
\*   rt     the runtime instance runPythonAsync was called on
\*   n, p   chunks emitted by the code, package messages reported
\*   init   history: no | pending | ok | failed, this activation's loadPyodide call
\*   fault  history: none | init | imports | code, the awaited step that raised
\*   ran    history: the code was handed to runPythonAsync
Activation(type, id, code) ==
    [type |-> type, id |-> id, code |-> code, pc |-> "new", rt |-> 0, n |-> 0, p |-> 0,
     init |-> "no", fault |-> "none", ran |-> FALSE]

\* A notification; `by` is history: the activation whose code or handler posted it.
Note(type, id, package, message, state, kernel, by) ==
    [type |-> type, id |-> id, package |-> package, message |-> message,
     state |-> state, kernel |-> kernel, by |-> by]

\* The recorded channel has room for what a task posts.
Room == Len(outbox) < MaxOutbox

\* The worker's event loop runs tasks until self.close() is called.
Open == ~closing

Init ==
    /\ pyodide = 0
    /\ cells = EmptyCells
    /\ cellsDefined = FALSE
    /\ packagesLoaded = FALSE
    /\ closing = FALSE
    /\ stdoutH = [r \in Invs |-> 0]
    /\ stderrH = [r \in Invs |-> 0]
    /\ inv = [h \in Invs |-> Activation("none", "", "")]
    /\ nmsg = 0
    /\ pre = [r \in Invs |-> [pc |-> "none", rt |-> 0]]
    /\ outbox = <<>>
    /\ handed = <<>>
    /\ lastRun = [i \in Ids |-> 0]
    /\ loaded = {}
    /\ loading = {}
    /\ failed = {}
    /\ now = 0
    /\ packageCache = [kind |-> "none", timestamp |-> 0, packages |-> <<>>]
    /\ localStorage = [kind |-> "none", timestamp |-> 0, packages |-> <<>>]
    /\ wheels = [x \in {} |-> 0]
    /\ windowFetch = 0
    /\ loadCall = [k \in 1..MaxLoadCalls |->
                     [names |-> <<>>, pc |-> "idle", i |-> 0, found |-> <<>>, record |-> <<>>,
                      called |-> FALSE, handed |-> <<>>, saved |-> 0, capture |-> ""]]
    /\ storeRejected = FALSE
    /\ lastPut = [x \in {} |-> 0]
    /\ lastGet = [name |-> "", outcome |-> "none", result |-> [kind |-> "none", data |-> 0],
                  before |-> [kind |-> "none", data |-> 0]]
    /\ loadedPackages = {}
    /\ selfFetch = 0
    /\ modules = {}
    /\ installRun = [op |-> "none", pc |-> "idle", packages |-> <<>>, forceReload |-> FALSE,
                     install |-> <<>>, attempts |-> 0, thrown |-> <<>>]
    /\ installRuns = 0
    /\ installLog = <<>>
    /\ putCall = [c \in 1..MaxPuts |->
                    [pc |-> "idle", name |-> "", url |-> "", data |-> <<>>, timestamp |-> 0]]
    /\ txQueue = <<>>
    /\ lastDone = [x \in {} |-> 0]
    /\ preload = [pc |-> "none", packages |-> <<>>, installedModules |-> {},
                  packagesToInstall |-> <<>>, i |-> 0, calls |-> <<>>, pending |-> 0]
    /\ listCall = [c \in 1..MaxListCalls |->
                     [impl |-> "none", pc |-> "idle", start |-> 0,
                      seen |-> [kind |-> "none", timestamp |-> 0, packages |-> <<>>],
                      requests |-> 0, resp |-> "none", result |-> <<>>, wrote |-> FALSE]]

Running(id) == CellState(id, "running", Null, <<>>, <<>>)

\* self.cells[id] = {...}
SetCell(cs, id, rec) == [x \in (DOMAIN cs) \cup {id} |-> IF x = id THEN rec ELSE cs[x]]

\* self.cells[id], as postMessage's structured clone snapshots it
CellOf(cs, id) == IF id \in DOMAIN cs THEN cs[id] ELSE Undefined

\* The part of the worker a handler touches.
World == [cells |-> cells, outbox |-> outbox, handed |-> handed]

\* Batched with the setStderr handler pasted from the setStdout one without
\* changing the notification's type.
BatchedPasted(w, owner, s, c) ==
    LET id == inv[owner].id
        got == Append(w.handed, [by |-> owner, id |-> id, stream |-> s, chunk |-> c])
    IN  IF id \in DOMAIN w.cells
        THEN [cells  |-> [w.cells EXCEPT ![id][s] = Append(@, c)],
              outbox |-> Append(w.outbox, Note("stdout", id, FALSE, c, Undefined, EmptyCells, owner)),
              handed |-> got]
        ELSE [w EXCEPT !.handed = got]

\* The batched handlers executeCode installs, as closed over the id of activation
\* `owner`: append the chunk to the cell's buffer, then post it.  When
\* self.cells[id] is undefined the append throws a TypeError into the runtime
\* and the postMessage after it is not reached.
Batched(w, owner, s, c) ==
    LET id == inv[owner].id
        got == Append(w.handed, [by |-> owner, id |-> id, stream |-> s, chunk |-> c])
    IN  IF id \in DOMAIN w.cells
        THEN [cells  |-> [w.cells EXCEPT ![id][s] = Append(@, c)],
              outbox |-> Append(w.outbox, Note(s, id, FALSE, c, Undefined, EmptyCells, owner)),
              handed |-> got]
        ELSE [w EXCEPT !.handed = got]

\* Runtime instance r writes chunk c to stream s: it goes to the handler that
\* was installed last on r, or to the console when none was.
Write(w, r, s, c) ==
    LET owner == IF s = "stdout" THEN stdoutH[r] ELSE stderrH[r]
    IN  IF owner = 0 THEN w ELSE Batched(w, owner, s, c)

\* initializePyodide, from the test of self.pyodide to the await of loadPyodide
InitEnter(h, type, id, code) ==
    /\ cells' = EmptyCells
    /\ cellsDefined' = TRUE
    /\ packagesLoaded' = FALSE
    /\ inv' = [inv EXCEPT ![h] = [Activation(type, id, code) EXCEPT !.pc = "loading", !.init = "pending"]]
    /\ UNCHANGED <<pyodide, closing, stdoutH, stderrH, pre, outbox, handed, lastRun>>

\* executeCode, from the assignment of self.cells[id] to the await of
\* loadPackagesFromImports, on runtime instance py
ExecBody(h, id, py) ==
    /\ cells' = SetCell(cells, id, Running(id))
    /\ stdoutH' = [stdoutH EXCEPT ![py] = h]
    /\ stderrH' = [stderrH EXCEPT ![py] = h]
    /\ lastRun' = [lastRun EXCEPT ![id] = h]

\* case 'initialize'
DeliverInitialize ==
    /\ Open /\ nmsg < MaxMsgs /\ Room
    /\ UNCHANGED packageVars
    /\ nmsg' = nmsg + 1
    /\ LET h == nmsg + 1 IN
       IF pyodide = 0
       THEN InitEnter(h, "initialize", "", "")
       ELSE /\ outbox' = Append(outbox, Note("initialized", "", FALSE, Null, Undefined, EmptyCells, h))
            /\ inv' = [inv EXCEPT ![h] = [Activation("initialize", "", "") EXCEPT !.pc = "done"]]
            /\ UNCHANGED <<pyodide, cells, cellsDefined, packagesLoaded, closing,
                           stdoutH, stderrH, pre, handed, lastRun>>

\* case 'execute'
DeliverExecute ==
    /\ Open /\ nmsg < MaxMsgs
    /\ UNCHANGED packageVars
    /\ nmsg' = nmsg + 1
    /\ \E req \in Requests :
       LET h == nmsg + 1
           id == req[1]
           code == req[2] IN
       IF id = "" \/ code = ""
       THEN /\ inv' = [inv EXCEPT ![h] = [Activation("execute", id, code) EXCEPT !.pc = "done"]]
            /\ UNCHANGED <<pyodide, cells, cellsDefined, packagesLoaded, closing,
                           stdoutH, stderrH, pre, outbox, handed, lastRun>>
       ELSE IF pyodide = 0
       THEN InitEnter(h, "execute", id, code)
       ELSE /\ ExecBody(h, id, pyodide)
            /\ inv' = [inv EXCEPT ![h] = [Activation("execute", id, code) EXCEPT !.pc = "imports"]]
            /\ UNCHANGED <<pyodide, cellsDefined, packagesLoaded, closing, pre, outbox, handed>>

\* case 'getState'
DeliverGetState ==
    /\ Open /\ nmsg < MaxMsgs /\ Room
    /\ UNCHANGED packageVars
    /\ nmsg' = nmsg + 1
    /\ outbox' = Append(outbox, Note("kernelState", "", FALSE, Null, Undefined, cells, nmsg + 1))
    /\ inv' = [inv EXCEPT ![nmsg + 1] = [Activation("getState", "", "") EXCEPT !.pc = "done"]]
    /\ UNCHANGED <<pyodide, cells, cellsDefined, packagesLoaded, closing,
                   stdoutH, stderrH, pre, handed, lastRun>>

\* DeliverTerminate without the call of self.close().
DeliverTerminateNoClose ==
    /\ Open /\ nmsg < MaxMsgs
    /\ UNCHANGED packageVars
    /\ nmsg' = nmsg + 1
    /\ cells' = EmptyCells
    /\ inv' = [inv EXCEPT ![nmsg + 1] = [Activation("terminate", "", "") EXCEPT !.pc = "done"]]
    /\ UNCHANGED <<pyodide, cellsDefined, packagesLoaded, closing, stdoutH, stderrH, pre,
                   outbox, handed, lastRun>>

\* case 'terminate': every key of self.cells is deleted (a for-in over an
\* undefined self.cells runs no iteration), then self.close().  close() discards
\* the tasks queued on the worker's event loop and sets its closing flag, so no
\* further task is queued and the event loop ends with the task that called
\* it: no later message is delivered and no operation a suspended activation
\* or the preload awaits is ever resumed.
DeliverTerminate ==
    /\ Open /\ nmsg < MaxMsgs
    /\ UNCHANGED packageVars
    /\ nmsg' = nmsg + 1
    /\ cells' = EmptyCells
    /\ closing' = TRUE
    /\ inv' = [inv EXCEPT ![nmsg + 1] = [Activation("terminate", "", "") EXCEPT !.pc = "done"]]
    /\ UNCHANGED <<pyodide, cellsDefined, packagesLoaded, stdoutH, stderrH, pre,
                   outbox, handed, lastRun>>

\* default: console.error only
DeliverUnknown ==
    /\ Open /\ nmsg < MaxMsgs
    /\ UNCHANGED packageVars
    /\ nmsg' = nmsg + 1
    /\ inv' = [inv EXCEPT ![nmsg + 1] = [Activation("unknown", "", "") EXCEPT !.pc = "done"]]
    /\ UNCHANGED <<pyodide, cells, cellsDefined, packagesLoaded, closing,
                   stdoutH, stderrH, pre, outbox, handed, lastRun>>

\* preloadPackages(), from its call to its first await: it returns at once when
\* self.packagesLoaded is set, else it asks for the package list
PreloadStart == [pc |-> IF packagesLoaded THEN "skipped" ELSE "list", rt |-> 0]

\* loadPyodide resolves in activation h: self.pyodide is assigned the new
\* instance, preloadPackages() is called and not awaited, initializePyodide
\* returns and its caller goes on in the same task.
LoadResolve(h) ==
    /\ Open /\ inv[h].pc = "loading"
    /\ UNCHANGED packageVars
    /\ inv[h].type = "initialize" => Room
    /\ pyodide' = h
    /\ pre' = [pre EXCEPT ![h] = PreloadStart]
    /\ IF inv[h].type = "initialize"
       THEN /\ outbox' = Append(outbox, Note("initialized", "", FALSE, Null, Undefined, EmptyCells, h))
            /\ inv' = [inv EXCEPT ![h].pc = "done", ![h].init = "ok"]
            /\ UNCHANGED <<cells, stdoutH, stderrH, lastRun>>
       ELSE /\ ExecBody(h, inv[h].id, h)
            /\ inv' = [inv EXCEPT ![h].pc = "imports", ![h].init = "ok"]
            /\ UNCHANGED outbox
    /\ UNCHANGED <<cellsDefined, packagesLoaded, closing, nmsg, handed>>

\* loadPyodide rejects: the await in initializePyodide throws, and neither
\* case 'initialize' nor executeCode catches it
LoadReject(h) ==
    /\ Open /\ inv[h].pc = "loading"
    /\ UNCHANGED packageVars
    /\ inv' = [inv EXCEPT ![h].pc = "rejected", ![h].init = "failed", ![h].fault = "init"]
    /\ UNCHANGED <<pyodide, cells, cellsDefined, packagesLoaded, closing, stdoutH, stderrH,
                   nmsg, pre, outbox, handed, lastRun>>

\* loadPackagesFromImports reports progress: messageCallback / errorCallback post
\* a stdout / stderr notification marked package, and touch no cell
ImportsMessage(h, s) ==
    /\ Open /\ inv[h].pc = "imports" /\ Room
    /\ UNCHANGED packageVars
    /\ inv[h].p < MaxPkgMsgs
    /\ outbox' = Append(outbox, Note(s, inv[h].id, TRUE, PackageText(h, inv[h].p + 1),
                                     Undefined, EmptyCells, h))
    /\ inv' = [inv EXCEPT ![h].p = @ + 1]
    /\ UNCHANGED <<pyodide, cells, cellsDefined, packagesLoaded, closing, stdoutH, stderrH,
                   nmsg, pre, handed, lastRun>>

\* loadPackagesFromImports resolves: self.pyodide.runPythonAsync(code) is called
\* on whatever instance self.pyodide holds now
ImportsResolve(h) ==
    /\ Open /\ inv[h].pc = "imports"
    /\ UNCHANGED packageVars
    /\ inv' = [inv EXCEPT ![h].pc = "running", ![h].rt = pyodide, ![h].ran = TRUE]
    /\ UNCHANGED <<pyodide, cells, cellsDefined, packagesLoaded, closing, stdoutH, stderrH,
                   nmsg, pre, outbox, handed, lastRun>>

\* The catch and finally blocks of executeCode, entered with fault f.  With
\* self.cells[id] present: status error, the fault's text appended to stderr,
\* the result notification, return.  With self.cells[id] undefined the catch
\* block itself throws a TypeError; finally still posts (state: undefined) and
\* the TypeError leaves executeCode and the message handler.
CatchFinally(h, f) ==
    LET id == inv[h].id IN
    IF id \in DOMAIN cells
    THEN /\ cells' = [cells EXCEPT ![id].status = "error",
                                   ![id].stderr = Append(@, FaultText(h))]
         /\ outbox' = Append(outbox, Note("result", id, FALSE, Null, cells'[id], EmptyCells, h))
         /\ inv' = [inv EXCEPT ![h].pc = "done", ![h].fault = f]
    ELSE /\ cells' = cells
         /\ outbox' = Append(outbox, Note("result", id, FALSE, Null, Undefined, EmptyCells, h))
         /\ inv' = [inv EXCEPT ![h].pc = "rejected", ![h].fault = f]

\* loadPackagesFromImports rejects: the code is never run
ImportsReject(h) ==
    /\ Open /\ inv[h].pc = "imports" /\ Room
    /\ UNCHANGED packageVars
    /\ CatchFinally(h, "imports")
    /\ UNCHANGED <<pyodide, cellsDefined, packagesLoaded, closing, stdoutH, stderrH,
                   nmsg, pre, handed, lastRun>>

\* The code running in activation h prints a chunk on stream s of the instance
\* it runs on.
RunEmit(h, s) ==
    /\ Open /\ inv[h].pc = "running"
    /\ UNCHANGED packageVars
    /\ inv[h].n < MaxChunks
    /\ LET w == Write(World, inv[h].rt, s, Chunk(h, inv[h].n + 1)) IN
       /\ Len(w.outbox) <= MaxOutbox
       /\ cells' = w.cells
       /\ outbox' = w.outbox
       /\ handed' = w.handed
    /\ inv' = [inv EXCEPT ![h].n = @ + 1]
    /\ UNCHANGED <<pyodide, cellsDefined, packagesLoaded, closing, stdoutH, stderrH,
                   nmsg, pre, lastRun>>

\* runPythonAsync resolves: result and status are written through
\* self.cells[id], then finally posts the result notification.  With
\* self.cells[id] undefined the first write throws and the catch block is
\* entered.
RunResolve(h) ==
    /\ Open /\ inv[h].pc = "running" /\ Room
    /\ UNCHANGED packageVars
    /\ LET id == inv[h].id IN
       IF id \in DOMAIN cells
       THEN /\ cells' = [cells EXCEPT ![id].result = Value(h), ![id].status = "completed"]
            /\ outbox' = Append(outbox, Note("result", id, FALSE, Null, cells'[id], EmptyCells, h))
            /\ inv' = [inv EXCEPT ![h].pc = "done"]
       ELSE CatchFinally(h, "none")
    /\ UNCHANGED <<pyodide, cellsDefined, packagesLoaded, closing, stdoutH, stderrH,
                   nmsg, pre, handed, lastRun>>

\* runPythonAsync rejects
RunReject(h) ==
    /\ Open /\ inv[h].pc = "running" /\ Room
    /\ UNCHANGED packageVars
    /\ CatchFinally(h, "code")
    /\ UNCHANGED <<pyodide, cellsDefined, packagesLoaded, closing, stdoutH, stderrH,
                   nmsg, pre, handed, lastRun>>

\* preloadPackages up to its first snippet: the package list arrives
\* (fetchPyodidePackages never rejects), loadPackage('micropip') resolves, and
\* the diagnostic snippet is run on whatever instance self.pyodide holds now.
\* Nothing the worker keeps changes between these awaits, so they are one step.
PreloadAdvance(r) ==
    /\ Open /\ pre[r].pc = "list"
    /\ UNCHANGED packageVars
    /\ pre' = [pre EXCEPT ![r] = [pc |-> "diag", rt |-> pyodide]]
    /\ UNCHANGED <<pyodide, cells, cellsDefined, packagesLoaded, closing, stdoutH, stderrH,
                   inv, nmsg, outbox, handed, lastRun>>

\* The diagnostic snippet prints "Python version: ..." and "Platform info: ..."
\* and resolves.  Either some package is not among the loaded modules, and the
\* micropip configuration snippet is run on self.pyodide, or none is and
\* self.packagesLoaded is set.
PreloadDiag(r) ==
    /\ Open /\ pre[r].pc = "diag"
    /\ UNCHANGED packageVars
    /\ LET w == Write(Write(World, pre[r].rt, "stdout", PreloadText(1)),
                      pre[r].rt, "stdout", PreloadText(2)) IN
       /\ Len(w.outbox) <= MaxOutbox
       /\ cells' = w.cells
       /\ outbox' = w.outbox
       /\ handed' = w.handed
    /\ \E missing \in BOOLEAN :
       IF missing
       THEN /\ pre' = [pre EXCEPT ![r] = [pc |-> "config", rt |-> pyodide]]
            /\ UNCHANGED packagesLoaded
       ELSE /\ pre' = [pre EXCEPT ![r] = [pc |-> "returned", rt |-> 0]]
            /\ packagesLoaded' = TRUE
    /\ UNCHANGED <<pyodide, cellsDefined, closing, stdoutH, stderrH, inv, nmsg, lastRun>>

\* The configuration snippet prints "Micropip version: ..." and resolves; the
\* batch loop of micropip.install calls follows.
PreloadConfig(r) ==
    /\ Open /\ pre[r].pc = "config"
    /\ UNCHANGED packageVars
    /\ LET w == Write(World, pre[r].rt, "stdout", PreloadText(3)) IN
       /\ Len(w.outbox) <= MaxOutbox
       /\ cells' = w.cells
       /\ outbox' = w.outbox
       /\ handed' = w.handed
    /\ pre' = [pre EXCEPT ![r] = [pc |-> "install", rt |-> 0]]
    /\ UNCHANGED <<pyodide, cellsDefined, packagesLoaded, closing, stdoutH, stderrH,
                   inv, nmsg, lastRun>>

\* Every batch is installed and the verification snippet (it prints nothing)
\* resolves: self.packagesLoaded = true
PreloadFinish(r) ==
    /\ Open /\ pre[r].pc = "install"
    /\ UNCHANGED packageVars
    /\ pre' = [pre EXCEPT ![r] = [pc |-> "returned", rt |-> 0]]
    /\ packagesLoaded' = TRUE
    /\ UNCHANGED <<pyodide, cells, cellsDefined, closing, stdoutH, stderrH,
                   inv, nmsg, outbox, handed, lastRun>>

\* Any awaited runtime operation of preloadPackages rejects: the catch block
\* logs the error and the function returns
PreloadFail(r) ==
    /\ Open /\ pre[r].pc \in {"list", "diag", "config", "install"}
    /\ UNCHANGED packageVars
    /\ pre' = [pre EXCEPT ![r] = [pc |-> "returned", rt |-> 0]]
    /\ UNCHANGED <<pyodide, cells, cellsDefined, packagesLoaded, closing, stdoutH, stderrH,
                   inv, nmsg, outbox, handed, lastRun>>

\* One task of the worker's event loop.
Next ==
    \/ DeliverInitialize
    \/ DeliverExecute
    \/ DeliverGetState
    \/ DeliverTerminate
    \/ DeliverUnknown
    \/ \E h \in Invs : LoadResolve(h)
    \/ \E h \in Invs : LoadReject(h)
    \/ \E h \in Invs, s \in Streams : ImportsMessage(h, s)
    \/ \E h \in Invs : ImportsResolve(h)
    \/ \E h \in Invs : ImportsReject(h)
    \/ \E h \in Invs, s \in Streams : RunEmit(h, s)
    \/ \E h \in Invs : RunResolve(h)
    \/ \E h \in Invs : RunReject(h)
    \/ \E r \in Invs : PreloadAdvance(r)
    \/ \E r \in Invs : PreloadDiag(r)
    \/ \E r \in Invs : PreloadConfig(r)
    \/ \E r \in Invs : PreloadFinish(r)
    \/ \E r \in Invs : PreloadFail(r)

Spec == Init /\ [][Next]_vars

(***************************************************************************)
(* The package manager's registry (src/unnamed/part_001, lines 17-44):     *)
(* three sets of package names and the two exported operations that write  *)
(* them.  Nothing in the module adds a name to packageCache.loading.       *)
(***************************************************************************)

\* the package names callers pass
PackageNames == {"micropip", "numpy", "pandas", "regex"}

\* isPackageLoaded(packageName)
isPackageLoaded(name) == name \in loaded

\* markPackageAsLoaded(packageName)
markPackageAsLoaded(name) ==
    /\ loading' = loading \ {name}
    /\ loaded' = loaded \cup {name}
    /\ UNCHANGED failed

\* markPackageAsFailed(packageName)
markPackageAsFailed(name) ==
    /\ loading' = loading \ {name}
    /\ failed' = failed \cup {name}
    /\ UNCHANGED loaded

\* a caller marks some package as loaded
MarkLoaded ==
    /\ \E name \in PackageNames : markPackageAsLoaded(name)
    /\ UNCHANGED exceptRegistry

\* a caller marks some package as failed
MarkFailed ==
    /\ \E name \in PackageNames : markPackageAsFailed(name)
    /\ UNCHANGED exceptRegistry

NextRegistry ==
    \/ MarkLoaded
    \/ MarkFailed

SpecRegistry == Init /\ [][NextRegistry]_vars

(***************************************************************************)
(* The package list source, in its two implementations:                    *)
(* fetchPyodidePackages of the worker (part_000, lines 39-65), which keeps *)
(* its result in the variable packageCache, and fetchPyodidePackages of    *)
(* the package manager (part_001, lines 97-145), which keeps it in         *)
(* localStorage.  A call is two tasks: up to the await of fetch, and from  *)
(* the response to the return.                                             *)
(***************************************************************************)

\* const DEFAULT_PACKAGES of the worker
DEFAULT_PACKAGES ==
    <<"micropip", "packaging", "requests", "beautifulsoup4", "numpy", "pandas",
      "matplotlib", "scipy", "regex">>
\* const DEFAULT_PACKAGES of the package manager's fetchPyodidePackages
DEFAULT_PACKAGES_manager ==
    <<"micropip", "packaging", "requests", "beautifulsoup4", "numpy", "pandas">>

\* const CACHE_EXPIRY_MS (24 hours), in clock units
CACHE_EXPIRY_MS == 2

\* the package lists the server's `packages` field carries
Lists == {<<>>, <<"numpy", "regex">>}

\* a cache value: nothing stored, a stored text JSON.parse or the field reads
\* fail on, or {timestamp, packages}
NoEntry == [kind |-> "none", timestamp |-> 0, packages |-> <<>>]
Unreadable == [kind |-> "unreadable", timestamp |-> 0, packages |-> <<>>]
Entry(ts, pk) == [kind |-> "entry", timestamp |-> ts, packages |-> pk]

\* what the request comes to: fetch rejects; a non-ok status; a body json()
\* rejects; the body `null`; an object without `packages`; an object with one
Response(kind, pk) == [kind |-> kind, packages |-> pk]
Responses ==
    {Response(k, <<>>) : k \in {"neterror", "status500", "malformed", "nullbody", "nolist"}}
        \cup {Response("list", pk) : pk \in Lists}

\* The try block after the cache test: the list the call returns and whether
\* it reaches the cache update.  `data.packages || DEFAULT_PACKAGES` takes the
\* default for a missing field and the field for any array, the empty one too.
FromResponse(resp, default) ==
    CASE resp.kind \in {"neterror", "status500", "malformed", "nullbody"} ->
            [packages |-> default, update |-> FALSE]
      [] resp.kind = "nolist" -> [packages |-> default, update |-> TRUE]
      [] OTHER -> [packages |-> resp.packages, update |-> TRUE]

ListCall(impl, pc, seen, requests) ==
    [impl |-> impl, pc |-> pc, start |-> now, seen |-> seen, requests |-> requests,
     resp |-> "none", result |-> <<>>, wrote |-> FALSE]

\* the clock advances
Tick ==
    /\ now < MaxClock
    /\ now' = now + 1
    /\ UNCHANGED <<packageCache, localStorage, listCall>>
    /\ UNCHANGED exceptList

\* worker: fetchPyodidePackages() up to its return of the cached list or its
\* await of fetch
WorkerListCall(c) ==
    /\ listCall[c].pc = "idle"
    /\ \A d \in 1..(c - 1) : listCall[d].pc # "idle"
    /\ IF packageCache.kind = "entry" /\ now - packageCache.timestamp < CACHE_EXPIRY_MS
       THEN listCall' = [listCall EXCEPT ![c] =
                [ListCall("worker", "returned", packageCache, 0)
                    EXCEPT !.result = packageCache.packages]]
       ELSE listCall' = [listCall EXCEPT ![c] = ListCall("worker", "fetching", packageCache, 1)]
    /\ UNCHANGED <<now, packageCache, localStorage>>
    /\ UNCHANGED exceptList

\* worker: the request of call c settles
WorkerListResponse(c) ==
    /\ listCall[c].pc = "fetching" /\ listCall[c].impl = "worker"
    /\ \E resp \in Responses :
        LET out == FromResponse(resp, DEFAULT_PACKAGES) IN
        /\ packageCache' = IF out.update THEN Entry(now, out.packages) ELSE packageCache
        /\ listCall' = [listCall EXCEPT ![c].pc = "returned", ![c].resp = resp.kind,
                                        ![c].result = out.packages, ![c].wrote = out.update]
    /\ UNCHANGED <<now, localStorage>>
    /\ UNCHANGED exceptList

\* package manager: fetchPyodidePackages() up to its return of the cached list
\* or its await of fetch.  localStorage.getItem is called outside any try: when
\* the storage cannot be read the call rejects there.
ManagerListCall(c) ==
    /\ listCall[c].pc = "idle"
    /\ \A d \in 1..(c - 1) : listCall[d].pc # "idle"
    /\ \E readable \in BOOLEAN :
        listCall' = [listCall EXCEPT ![c] =
            IF ~readable
            THEN ListCall("manager", "rejected", localStorage, 0)
            ELSE IF /\ localStorage.kind = "entry"
                    /\ ~(now - localStorage.timestamp > CACHE_EXPIRY_MS)
                    /\ Len(localStorage.packages) > 0
            THEN [ListCall("manager", "returned", localStorage, 0)
                    EXCEPT !.result = localStorage.packages]
            ELSE ListCall("manager", "fetching", localStorage, 1)]
    /\ UNCHANGED <<now, packageCache, localStorage>>
    /\ UNCHANGED exceptList

\* package manager: the request of call c settles; localStorage.setItem is
\* inside the try, a write the storage refuses ends in the catch
ManagerListResponse(c) ==
    /\ listCall[c].pc = "fetching" /\ listCall[c].impl = "manager"
    /\ \E resp \in Responses, writable \in BOOLEAN :
        LET out == FromResponse(resp, DEFAULT_PACKAGES_manager)
            stored == out.update /\ writable IN
        /\ out.update \/ writable    \* setItem is reached only on the update path
        /\ localStorage' = IF stored THEN Entry(now, out.packages) ELSE localStorage
        /\ listCall' = [listCall EXCEPT
                ![c].pc = "returned", ![c].resp = resp.kind, ![c].wrote = stored,
                ![c].result = IF out.update /\ ~writable
                              THEN DEFAULT_PACKAGES_manager ELSE out.packages]
    /\ UNCHANGED <<now, packageCache>>
    /\ UNCHANGED exceptList

\* another script of the page, or the user, leaves a text under CACHE_KEY that
\* is not a cache entry
StorageOverwritten ==
    /\ localStorage.kind # "unreadable"
    /\ localStorage' = Unreadable
    /\ UNCHANGED <<now, packageCache, listCall>>
    /\ UNCHANGED exceptList

NextList ==
    \/ Tick
    \/ \E c \in 1..MaxListCalls : WorkerListCall(c)
    \/ \E c \in 1..MaxListCalls : WorkerListResponse(c)
    \/ \E c \in 1..MaxListCalls : ManagerListCall(c)
    \/ \E c \in 1..MaxListCalls : ManagerListResponse(c)
    \/ StorageOverwritten

SpecList == Init /\ [][NextList]_vars

(***************************************************************************)
(* The wheel cache in IndexedDB and the cached package loader              *)
(* (part_001, lines 296-461 and 541-567).  setupCachedPackageLoader        *)
(* replaces pyodide.loadPackage by a function that looks every requested   *)
(* name up in the store, hands the names it did not find to the original   *)
(* loader and, while that one runs, wraps window.fetch to store the wheels *)
(* that are downloaded.                                                    *)
(***************************************************************************)

\* the `names` arguments of pyodide.loadPackage
LoadRequests == {<<"numpy", "pandas">>, <<"scikit-learn">>}

\* how one store operation goes: its request succeeds, the database cannot be
\* opened (initPackageDatabase rejects), or the request fires onerror
StoreOutcomes == {"ok", "unavailable", "requesterror"}

\* JS null, as the result of a lookup
Absent == [kind |-> "null", data |-> 0]
Payload(d) == [kind |-> "data", data |-> d]
Rejected == [kind |-> "rejected", data |-> 0]

\* wheelData: the bytes of the wheel file of a package
WheelOf(name) == <<"wheel", name>>

\* The name the fetch wrapper stores a downloaded wheel under:
\* filename.split('-')[0] of the wheel's file name, in which the hyphens of a
\* package name are underscores.
CachedAs(name) == IF name = "scikit-learn" THEN "scikit_learn" ELSE name

\* getCachedPackageWheel(name).  The promise made inside the try is returned
\* without an await, so its rejection is not caught by the catch around it.
getCachedPackageWheel(name, o) ==
    CASE o = "unavailable" -> Absent
      [] o = "requesterror" -> Rejected
      [] OTHER -> IF name \in DOMAIN wheels THEN Payload(wheels[name].data) ELSE Absent

\* const wheel: PackageWheelCache
PackageWheelCache(name, url, data, timestamp) ==
    [name |-> name, url |-> url, data |-> data, timestamp |-> timestamp]

\* A put that writes the fields one by one and leaves the bytes of a record
\* that exists as they are.
storePutFields(wheel) ==
    [x \in (DOMAIN wheels) \cup {wheel.name} |->
        IF x # wheel.name THEN wheels[x]
        ELSE IF x \in DOMAIN wheels THEN [wheel EXCEPT !.data = wheels[x].data] ELSE wheel]

\* store.put(wheel) when its transaction runs: the record under the key
\* wheel.name (keyPath 'name') is the object given, whole
storePut(wheel) ==
    [x \in (DOMAIN wheels) \cup {wheel.name} |-> IF x = wheel.name THEN wheel ELSE wheels[x]]

\* cachePackageWheel with store.add in the place of store.put: a record that
\* exists is kept.
cachePackageWheelAdd(name, url, data, o) ==
    IF o = "ok"
    THEN [x \in (DOMAIN wheels) \cup {name} |->
            IF x \in DOMAIN wheels THEN wheels[x] ELSE PackageWheelCache(name, url, data, now)]
    ELSE wheels

\* cachePackageWheel(name, url, data) from the call to the settling of its
\* promise: the store after it
cachePackageWheel(name, url, data, o) ==
    IF o = "ok" THEN storePut(PackageWheelCache(name, url, data, now)) ELSE wheels

\* the operation returns a rejected promise
StoreOpRejects(o) == o = "requesterror"

\* the wrappers a call of window.fetch runs through, outermost first
RECURSIVE FetchChain(_)
FetchChain(f) == IF f = 0 THEN <<>> ELSE <<f>> \o FetchChain(loadCall[f].saved)

\* packagesToLoad with the test of the lookup's result left out.
packagesToLoadAll(names, found) == names

\* const packagesToLoad: the requested names whose lookup gave no wheel
\* (`if (cachedWheel)` fails), in the order requested
packagesToLoad(names, found) ==
    LET pairs == SelectSeq([j \in 1..Len(found) |-> <<names[j], found[j]>>],
                           LAMBDA e : e[2] # "data")
    IN  [j \in 1..Len(pairs) |-> pairs[j][1]]

\* pyodide.loadPackage(names) is called: up to the await of the first lookup
LoaderCall(k) ==
    /\ loadCall[k].pc = "idle"
    /\ \A j \in 1..(k - 1) : loadCall[j].pc # "idle"
    /\ \E names \in LoadRequests :
        loadCall' = [loadCall EXCEPT ![k].names = names, ![k].pc = "lookup", ![k].i = 1]
    /\ UNCHANGED <<wheels, windowFetch, storeRejected, lastPut, lastGet, loadedPackages>>
    /\ UNCHANGED exceptLoad

\* The lookup of the i-th name comes back.  After the last one the names not
\* found are handed to the original loader, with window.fetch wrapped; when
\* every name was found the call returns true.
LoaderLookup(k) ==
    /\ loadCall[k].pc = "lookup"
    /\ \E o \in StoreOutcomes :
        LET c == loadCall[k]
            name == c.names[c.i]
            got == getCachedPackageWheel(name, o)
            found == Append(c.found, got.kind)
            seen == [c EXCEPT !.found = found, !.record = Append(@, name \in DOMAIN wheels)]
            toLoad == packagesToLoad(c.names, found)
        IN  IF got = Rejected
            THEN /\ loadCall' = [loadCall EXCEPT ![k] = [seen EXCEPT !.pc = "rejected"]]
                 /\ storeRejected' = TRUE
                 /\ UNCHANGED windowFetch
            ELSE IF c.i < Len(c.names)
            THEN /\ loadCall' = [loadCall EXCEPT ![k] = [seen EXCEPT !.i = c.i + 1]]
                 /\ UNCHANGED <<windowFetch, storeRejected>>
            ELSE IF Len(toLoad) > 0
            THEN /\ loadCall' = [loadCall EXCEPT ![k] =
                        [seen EXCEPT !.pc = "loading", !.called = TRUE, !.handed = toLoad,
                                     !.saved = windowFetch]]
                 /\ windowFetch' = k
                 /\ UNCHANGED storeRejected
            ELSE /\ loadCall' = [loadCall EXCEPT ![k] = [seen EXCEPT !.pc = "done"]]
                 /\ UNCHANGED <<windowFetch, storeRejected>>
    /\ UNCHANGED <<wheels, lastPut, lastGet, loadedPackages>>
    /\ UNCHANGED exceptLoad

\* what the successful store operations have left of each name: the payload of
\* the put made last since the store was cleared, if any
Put(d) == [kind |-> "put", data |-> d]
Never == [kind |-> "never", data |-> 0]
StoredAfterPut(name, data, o) ==
    IF o = "ok"
    THEN [x \in (DOMAIN lastPut) \cup {name} |-> IF x = name THEN Put(data) ELSE lastPut[x]]
    ELSE lastPut

\* The original loader of call k downloads the wheel of one of its names
\* through window.fetch, and the original fetch resolves with the response.
\* The wrapper that is installed clones it and awaits the bytes and the store
\* before it returns the response to the loader.
LoaderDownload(k) ==
    /\ loadCall[k].pc = "loading"
    /\ loadCall[k].capture = ""
    /\ FetchChain(windowFetch) # <<>>
    /\ \E j \in 1..Len(loadCall[k].handed) :
        loadCall' = [loadCall EXCEPT ![k].capture = loadCall[k].handed[j]]
    /\ UNCHANGED <<wheels, windowFetch, storeRejected, lastPut, lastGet, loadedPackages>>
    /\ UNCHANGED exceptLoad

\* `await cachePackageWheel(packageName, url, wheelData)` in the wrapper
\* settles: the wheel is stored under the name read from the URL, a rejection
\* is caught in the wrapper, and `return response` hands the response to the
\* loader.
LoaderCaptured(k) ==
    /\ loadCall[k].capture # ""
    /\ \E o \in StoreOutcomes :
        LET name == loadCall[k].capture IN
        /\ wheels' = cachePackageWheel(CachedAs(name), name, WheelOf(name), o)
        /\ lastPut' = StoredAfterPut(CachedAs(name), WheelOf(name), o)
        /\ storeRejected' = (storeRejected \/ StoreOpRejects(o))
    /\ loadCall' = [loadCall EXCEPT ![k].capture = ""]
    /\ UNCHANGED <<windowFetch, lastGet, loadedPackages>>
    /\ UNCHANGED exceptLoad

\* The original loader of call k resolves or rejects; the finally block puts
\* back the function the call found in window.fetch.  A loader that resolves
\* has loaded the names it was handed into the runtime.
LoaderSettle(k) ==
    /\ loadCall[k].pc = "loading"
    /\ loadCall[k].capture = ""
    /\ windowFetch' = loadCall[k].saved
    /\ \E ok \in BOOLEAN :
        /\ loadCall' = [loadCall EXCEPT ![k].pc = IF ok THEN "done" ELSE "rejected"]
        /\ loadedPackages' = IF ok THEN loadedPackages \cup {loadCall[k].handed[j] : j \in DOMAIN loadCall[k].handed}
                                   ELSE loadedPackages
    /\ UNCHANGED <<wheels, storeRejected, lastPut, lastGet>>
    /\ UNCHANGED exceptLoad

(***************************************************************************)
(* preloadPackages() of the worker (part_000, lines 88-186), await by     *)
(* await: it wraps self.fetch, asks for the package list, loads micropip,  *)
(* asks the runtime which modules it has, and installs the other packages  *)
(* in batches.  Any rejection ends in the catch at line 183.               *)
(***************************************************************************)

\* const BATCH_SIZE
BATCH_SIZE == 3

\* pkg.toLowerCase()
toLowerCase(name) ==
    CASE name = "Pandas" -> "pandas"
      [] name = "NumPy" -> "numpy"
      [] OTHER -> name

\* the lists fetchPyodidePackages() resolves to
PreloadLists == {DEFAULT_PACKAGES, <<"NumPy", "regex">>}
\* the module tables the diagnostic snippet reports
ModuleTables == {{}, {"micropip", "packaging"}, {"numpy", "regex"}}

\* packages.filter(pkg => !installedModules.has(pkg.toLowerCase()))
FilterMissing(packages, installedModules) ==
    SelectSeq(packages, LAMBDA pkg : toLowerCase(pkg) \notin installedModules)

\* packagesToInstall.slice(i, i + BATCH_SIZE), i counted from 0
Batch(packagesToInstall, i) ==
    SubSeq(packagesToInstall, i + 1,
           IF i + BATCH_SIZE < Len(packagesToInstall) THEN i + BATCH_SIZE ELSE Len(packagesToInstall))

\* preloadPackages() is called: self.fetch is wrapped, the list is asked for
PreloadEnter ==
    /\ preload.pc = "none"
    /\ selfFetch' = selfFetch + 1
    /\ preload' = [preload EXCEPT !.pc = "list"]
    /\ UNCHANGED exceptPreload

\* fetchPyodidePackages() resolves; loadPackage('micropip') is called
PreloadGotList ==
    /\ preload.pc = "list"
    /\ \E packages \in PreloadLists :
        preload' = [preload EXCEPT !.pc = "micropip", !.packages = packages]
    /\ UNCHANGED selfFetch
    /\ UNCHANGED exceptPreload

\* loadPackage('micropip') settles; the diagnostic snippet is run
PreloadGotMicropip ==
    /\ preload.pc = "micropip"
    /\ \E ok \in BOOLEAN :
        preload' = [preload EXCEPT !.pc = IF ok THEN "check" ELSE "failed"]
    /\ UNCHANGED selfFetch
    /\ UNCHANGED exceptPreload

\* The diagnostic snippet settles.  With nothing to install the preload is
\* over; else the configuring snippet is run.
PreloadChecked ==
    /\ preload.pc = "check"
    /\ \/ preload' = [preload EXCEPT !.pc = "failed"]
       \/ \E installedModules \in ModuleTables :
            LET packagesToInstall == FilterMissing(preload.packages, installedModules) IN
            preload' = [preload EXCEPT
                !.installedModules = installedModules,
                !.packagesToInstall = packagesToInstall,
                !.pc = IF Len(packagesToInstall) > 0 THEN "configure" ELSE "done"]
    /\ UNCHANGED selfFetch
    /\ UNCHANGED exceptPreload

\* The configuring snippet settles; the loop is entered and micropip.install
\* is called with the first batch.
PreloadConfigured ==
    /\ preload.pc = "configure"
    /\ \/ preload' = [preload EXCEPT !.pc = "failed"]
       \/ preload' = [preload EXCEPT
            !.pc = "batch", !.i = 0, !.pending = 1,
            !.calls = Append(@, Batch(preload.packagesToInstall, 0))]
    /\ UNCHANGED selfFetch
    /\ UNCHANGED exceptPreload

\* micropip.install(batch) settles: i += BATCH_SIZE and the next batch is
\* installed, or the loop is left and the verifying snippet is run.
PreloadBatchSettled ==
    /\ preload.pc = "batch"
    /\ \/ preload' = [preload EXCEPT !.pc = "failed", !.pending = 0]
       \/ LET i == preload.i + BATCH_SIZE IN
          IF i < Len(preload.packagesToInstall)
          THEN preload' = [preload EXCEPT
                !.i = i, !.calls = Append(@, Batch(preload.packagesToInstall, i))]
          ELSE preload' = [preload EXCEPT !.i = i, !.pc = "verify", !.pending = 0]
    /\ UNCHANGED selfFetch
    /\ UNCHANGED exceptPreload

\* the verifying snippet settles
PreloadVerified ==
    /\ preload.pc = "verify"
    /\ \E ok \in BOOLEAN :
        preload' = [preload EXCEPT !.pc = IF ok THEN "done" ELSE "failed"]
    /\ UNCHANGED selfFetch
    /\ UNCHANGED exceptPreload

\* clearPyodideCache(): localStorage.removeItem and the opening of the
\* database are inside the try; the promise of the clear request is returned
\* without an await.
ClearCache ==
    /\ \E removable \in BOOLEAN, o \in StoreOutcomes :
        /\ removable \/ o = "unavailable"    \* the store is reached only after removeItem
        /\ localStorage' = IF removable THEN NoEntry ELSE localStorage
        /\ wheels' = IF removable /\ o = "ok" THEN [x \in {} |-> 0] ELSE wheels
        /\ storeRejected' = (storeRejected \/ (removable /\ StoreOpRejects(o)))
        /\ lastPut' = IF removable /\ o = "ok" THEN [x \in {} |-> 0] ELSE lastPut
    /\ UNCHANGED <<windowFetch, loadCall, lastGet, loadedPackages>>
    /\ UNCHANGED <<workerVars, registryVars, preloadVars, installVars, putVars,
                   now, packageCache, listCall>>

NextLoad ==
    \/ \E k \in 1..MaxLoadCalls : LoaderCall(k)
    \/ \E k \in 1..MaxLoadCalls : LoaderLookup(k)
    \/ \E k \in 1..MaxLoadCalls : LoaderDownload(k)
    \/ \E k \in 1..MaxLoadCalls : LoaderCaptured(k)
    \/ \E k \in 1..MaxLoadCalls : LoaderSettle(k)
    \/ ClearCache

SpecLoad == Init /\ [][NextLoad]_vars

(***************************************************************************)
(* The wheel store called directly (part_001, lines 325-385, 541-567):     *)
(* cachePackageWheel, getCachedPackageWheel and clearPyodideCache are      *)
(* exported and may be called in any order.                                *)
(***************************************************************************)

\* the names and the payloads of the direct calls
StoreNames == {"numpy", "pandas"}
Rebuilt(name) == <<"rebuilt", name>>
Payloads(name) == {WheelOf(name), Rebuilt(name)}

\* cachePackageWheel(name, url, data) is called and settles
StorePut ==
    /\ \E name \in StoreNames, o \in StoreOutcomes : \E data \in Payloads(name) :
        /\ wheels' = cachePackageWheel(name, name, data, o)
        /\ lastPut' = StoredAfterPut(name, data, o)
        /\ storeRejected' = (storeRejected \/ StoreOpRejects(o))
    /\ UNCHANGED <<windowFetch, loadCall, lastGet, loadedPackages>>
    /\ UNCHANGED exceptLoad

\* getCachedPackageWheel(name) is called and settles
StoreGet ==
    /\ \E name \in StoreNames, o \in StoreOutcomes :
        /\ lastGet' = [name |-> name, outcome |-> o,
                       result |-> getCachedPackageWheel(name, o),
                       before |-> IF name \in DOMAIN lastPut THEN lastPut[name] ELSE Never]
        /\ storeRejected' = (storeRejected \/ StoreOpRejects(o))
    /\ UNCHANGED <<wheels, windowFetch, loadCall, lastPut, loadedPackages>>
    /\ UNCHANGED exceptLoad

(***************************************************************************)
(* cachePackageWheel step by step (part_001, lines 296-354), for calls     *)
(* made side by side from one or several contexts that share the database. *)
(* Readwrite transactions on one object store run one at a time, in the    *)
(* order they were created.                                                *)
(***************************************************************************)

\* the url arguments of the calls
Urls == {"cdn", "mirror"}

\* cachePackageWheel(name, url, data) is called: up to the await of
\* initPackageDatabase()
PutCalled(c) ==
    /\ putCall[c].pc = "idle"
    /\ \A j \in 1..(c - 1) : putCall[j].pc # "idle"
    /\ \E name \in StoreNames, url \in Urls : \E data \in Payloads(name) :
        putCall' = [putCall EXCEPT ![c] =
            [pc |-> "opening", name |-> name, url |-> url, data |-> data, timestamp |-> 0]]
    /\ UNCHANGED <<txQueue, lastDone>>
    /\ UNCHANGED <<workerVars, registryVars, listVars, loadVars, preloadVars, installVars>>

\* indexedDB.open settles.  On success the transaction is created, the record
\* is built with timestamp Date.now() and store.put is requested; a failure is
\* caught and the call resolves with nothing written.
PutOpened(c) ==
    /\ putCall[c].pc = "opening"
    /\ \/ /\ putCall' = [putCall EXCEPT ![c].pc = "queued", ![c].timestamp = now]
          /\ txQueue' = Append(txQueue, c)
       \/ /\ putCall' = [putCall EXCEPT ![c].pc = "unavailable"]
          /\ UNCHANGED txQueue
    /\ UNCHANGED lastDone
    /\ UNCHANGED <<workerVars, registryVars, listVars, loadVars, preloadVars, installVars>>

\* The oldest transaction runs.  Its put request succeeds: the record is
\* written and onsuccess resolves the call; or it fires onerror and the call
\* is rejected.
PutSettled ==
    /\ txQueue # <<>>
    /\ LET c == Head(txQueue)
           call == putCall[c]
           wheel == PackageWheelCache(call.name, call.url, call.data, call.timestamp)
       IN  \/ /\ wheels' = storePut(wheel)
              /\ lastPut' = StoredAfterPut(call.name, call.data, "ok")
              /\ lastDone' = [x \in (DOMAIN lastDone) \cup {call.name} |->
                                IF x = call.name THEN c ELSE lastDone[x]]
              /\ putCall' = [putCall EXCEPT ![c].pc = "resolved"]
              /\ UNCHANGED storeRejected
           \/ /\ storeRejected' = TRUE
              /\ putCall' = [putCall EXCEPT ![c].pc = "rejected"]
              /\ UNCHANGED <<wheels, lastPut, lastDone>>
    /\ txQueue' = Tail(txQueue)
    /\ UNCHANGED <<windowFetch, loadCall, lastGet, loadedPackages>>
    /\ UNCHANGED <<workerVars, registryVars, listVars, preloadVars, installVars>>

NextPut ==
    \/ \E c \in 1..MaxPuts : PutCalled(c)
    \/ \E c \in 1..MaxPuts : PutOpened(c)
    \/ PutSettled
    \/ Tick

SpecPut == Init /\ [][NextPut]_vars

NextStore ==
    \/ StorePut
    \/ StoreGet
    \/ ClearCache

SpecStore == Init /\ [][NextStore]_vars

(***************************************************************************)
(* The package manager's installers (part_001, lines 153-291):             *)
(* preloadPyodidePackages and installMissingPackages, await by await.      *)
(* Both ask the runtime which of the requested packages its sys.modules    *)
(* lacks and hand names to micropip.install.                               *)
(***************************************************************************)

\* the `packages` arguments of the installers
InstallLists == {<<"numpy">>, <<"Pandas", "numpy">>}
\* the modules code run on the page imports
Importable == {"numpy", "pandas"}

\* checkMissingPackages(pyodide, packages): the lower-cased requested names
\* that sys.modules lacks; every requested name, as given, when the snippet fails
checkMissingPackages(packages, ok) ==
    IF ok
    THEN SelectSeq([j \in 1..Len(packages) |-> toLowerCase(packages[j])],
                   LAMBDA pkg : pkg \notin modules)
    ELSE packages

\* micropip.install(names) is called
Installing(names) == Append(installLog, [names |-> names, modules |-> modules])

\* A call of an installer.
\*   install    the names the next micropip.install is to get
\*   attempts   history: the micropip.install calls it has made
\*   thrown     history: the awaits that rejected, by the place of the call
InstallRun(op, pc, packages, forceReload) ==
    [op |-> op, pc |-> pc, packages |-> packages, forceReload |-> forceReload, install |-> <<>>,
     attempts |-> 0, thrown |-> <<>>]

\* installMissingPackages(pyodide, packages) is called: up to the await of
\* checkMissingPackages
InstallMissingCall ==
    /\ installRun.pc \in {"idle", "done"} /\ installRuns < MaxInstallRuns
    /\ installRuns' = installRuns + 1
    /\ \E packages \in InstallLists :
        installRun' = InstallRun("installMissingPackages", "check", packages, FALSE)
    /\ UNCHANGED <<modules, installLog>>
    /\ UNCHANGED exceptInstall

\* preloadPyodidePackages(pyodide, packages, options) is called: up to the
\* await of loadPackage('micropip')
PreloadPackagesCall ==
    /\ installRun.pc \in {"idle", "done"} /\ installRuns < MaxInstallRuns
    /\ installRuns' = installRuns + 1
    /\ \E packages \in InstallLists, forceReload \in BOOLEAN :
        installRun' = InstallRun("preloadPyodidePackages", "micropip", packages, forceReload)
    /\ UNCHANGED <<modules, installLog>>
    /\ UNCHANGED exceptInstall

\* checkMissingPackages settles
InstallerChecked ==
    /\ installRun.pc = "check"
    /\ \E ok \in BOOLEAN :
        LET missingPackages == checkMissingPackages(installRun.packages, ok) IN
        installRun' =
            IF Len(missingPackages) = 0 THEN [installRun EXCEPT !.pc = "done"]
            ELSE IF installRun.op = "installMissingPackages"
            THEN [installRun EXCEPT !.pc = "micropip", !.install = missingPackages]
            ELSE [installRun EXCEPT !.pc = "snippet", !.install = missingPackages]
    /\ UNCHANGED <<modules, installRuns, installLog>>
    /\ UNCHANGED exceptInstall

\* loadPackage('micropip') settles; pyimport('micropip') imports the module.
\* In installMissingPackages micropip.install follows at once, and a rejection
\* starts the fallback; in preloadPyodidePackages the check or, with
\* forceReload, the snippet follows, and a rejection ends the call.
InstallerGotMicropip ==
    /\ installRun.pc \in {"micropip", "fallback"}
    /\ \/ /\ modules' = modules \cup {"micropip"}
          /\ IF installRun.op = "installMissingPackages"
             THEN LET names == IF installRun.pc = "fallback"
                               THEN installRun.packages ELSE installRun.install IN
                  /\ installLog' = Installing(names)
                  /\ installRun' = [installRun EXCEPT
                        !.pc = IF installRun.pc = "fallback" THEN "reinstall" ELSE "install",
                        !.attempts = @ + 1]
             ELSE /\ installRun' = [installRun EXCEPT
                        !.pc = IF installRun.forceReload THEN "snippet" ELSE "check",
                        !.install = installRun.packages]
                  /\ UNCHANGED installLog
       \/ /\ installRun' = [installRun EXCEPT
                !.pc = IF installRun.op = "installMissingPackages" /\ installRun.pc = "micropip"
                       THEN "fallback" ELSE "done",
                !.thrown = Append(@, installRun.pc)]
          /\ UNCHANGED <<modules, installLog>>
    /\ UNCHANGED installRuns
    /\ UNCHANGED exceptInstall

\* preloadPyodidePackages: the snippet that prints the versions settles;
\* micropip.install(packages) is called
InstallerSnippetSettled ==
    /\ installRun.pc = "snippet"
    /\ \/ /\ installLog' = Installing(installRun.install)
          /\ installRun' = [installRun EXCEPT !.pc = "install", !.attempts = @ + 1]
       \/ /\ installRun' = [installRun EXCEPT !.pc = "done", !.thrown = Append(@, "snippet")]
          /\ UNCHANGED installLog
    /\ UNCHANGED <<modules, installRuns>>
    /\ UNCHANGED exceptInstall

\* micropip.install settles.  In installMissingPackages a rejection of the
\* first install starts the fallback, which loads micropip again and installs
\* all of `packages`.
InstallerInstallSettled ==
    /\ installRun.pc \in {"install", "reinstall"}
    /\ \E ok \in BOOLEAN :
        installRun' = [installRun EXCEPT
            !.pc = IF ~ok /\ installRun.op = "installMissingPackages" /\ installRun.pc = "install"
                   THEN "fallback" ELSE "done",
            !.thrown = IF ok THEN @ ELSE Append(@, installRun.pc)]
    /\ UNCHANGED <<modules, installRuns, installLog>>
    /\ UNCHANGED exceptInstall

\* code run on the page imports a module
ModuleImported ==
    /\ \E name \in Importable : name \notin modules /\ modules' = modules \cup {name}
    /\ UNCHANGED <<installRun, installRuns, installLog>>
    /\ UNCHANGED exceptInstall

NextInstall ==
    \/ InstallMissingCall
    \/ PreloadPackagesCall
    \/ InstallerChecked
    \/ InstallerGotMicropip
    \/ InstallerSnippetSettled
    \/ InstallerInstallSettled
    \/ ModuleImported
    \/ PreloadEnter
    \/ PreloadGotList
    \/ PreloadGotMicropip
    \/ PreloadChecked
    \/ PreloadConfigured
    \/ PreloadBatchSettled
    \/ PreloadVerified

SpecInstall == Init /\ [][NextInstall]_vars

(***************************************************************************)
(* The claims.                                                             *)
(***************************************************************************)

Terminal == {"completed", "error"}
Range(q) == {q[i] : i \in DOMAIN q}
\* the execute activations that passed the `id && code` test and have ended
Ended == {h \in Invs : /\ inv[h].type = "execute" /\ inv[h].id # "" /\ inv[h].code # ""
                       /\ inv[h].pc \in {"done", "rejected"}}
\* where in the outbox activation h posted its result notification
ResultsOf(h) == {i \in DOMAIN outbox : outbox[i].type = "result" /\ outbox[i].by = h}
\* an execute body that has started and not yet posted its result
InBody == {h \in Invs : inv[h].pc \in {"imports", "running"}}

\* C1: the status of a cell never goes from completed to error or from error
\* to completed, and it becomes running again only by an execute that assigns
\* the fresh record; every other step leaves it alone or takes running to
\* completed or error.
C1_StatusMonotonic ==
    [][\A id \in DOMAIN cells :
         id \in DOMAIN cells' =>
           \/ cells'[id].status = cells[id].status
           \/ cells[id].status = "running" /\ cells'[id].status \in Terminal
           \/ cells'[id] = Running(id)]_vars

\* C2: a cell that is terminal and whose result notification (carrying
\* exactly this record) has been sent is left as it is by every step, except
\* that a new execute may replace it by the fresh running record (or terminate
\* may delete it).
C2_TerminalImmutable ==
    [][\A id \in DOMAIN cells :
         ( /\ cells[id].status \in Terminal
           /\ \E i \in DOMAIN outbox : /\ outbox[i].type = "result"
                                       /\ outbox[i].id = id
                                       /\ outbox[i].state = cells[id] )
         => \/ id \notin DOMAIN cells'
            \/ cells'[id] = cells[id]
            \/ cells'[id] = Running(id)]_vars

\* C3: at no time have two execute bodies started without having posted their
\* result notification.
C3_NoInterleaving == Cardinality(InBody) <= 1

\* C4: every execute activation with an id and a code that has ended posted
\* exactly one result notification, which carries the CellState of its id with
\* a terminal status, and no stdout/stderr notification of that activation's
\* handlers or callbacks follows it.
C4_ExactlyOneResult ==
    \A h \in Ended :
        /\ Cardinality(ResultsOf(h)) = 1
        /\ \A i \in ResultsOf(h) :
              /\ outbox[i].state.id = inv[h].id
              /\ outbox[i].state.status \in Terminal
              /\ \A j \in DOMAIN outbox :
                    (j > i /\ outbox[j].by = h) => outbox[j].type \notin Streams

\* the texts of the notifications of stream s sent for id by the handlers
Notified(id, s) ==
    LET q == SelectSeq(outbox, LAMBDA m : m.type = s /\ m.id = id /\ ~m.package)
    IN  [i \in DOMAIN q |-> q[i].message]
\* the chunks of stream s the runtimes passed to the handlers installed for id
Produced(id, s) ==
    LET q == SelectSeq(handed, LAMBDA c : c.stream = s /\ c.id = id)
    IN  [i \in DOMAIN q |-> q[i].chunk]

\* the numbers of the chunks of run h that were notified on stream s, under
\* whatever id, in the order of their notifications
NotifiedOfRun(h, s) ==
    LET q == SelectSeq(outbox, LAMBDA m : /\ m.type = s /\ ~m.package
                                          /\ m.message.src = "chunk" /\ m.message.by = h)
    IN  [i \in DOMAIN q |-> q[i].message.n]

C6_FaultCaptured ==
    \A h \in Ended :
        /\ inv[h].pc = "done"
        /\ ResultsOf(h) # {}
        /\ \A i \in ResultsOf(h) :
              IF inv[h].fault # "none"
              THEN /\ outbox[i].state.status = "error"
                   /\ outbox[i].state.result = Null
                   /\ FaultText(h) \in Range(outbox[i].state.stderr)
              ELSE /\ outbox[i].state.status = "completed"
                   /\ outbox[i].state.result = Value(h)

\* C7: an ended execute activation whose import resolution failed has run its
\* code all the same, and an activation's result shows status error only when
\* the code itself raised.
C7_ImportFailureNotFatal ==
    \A h \in Ended :
        /\ inv[h].fault = "imports" => inv[h].ran
        /\ \A i \in ResultsOf(h) :
              outbox[i].state.status = "error" => inv[h].fault = "code"

\* the tokens of record c that activation h did not write
Foreign(c, h) ==
    {t \in Range(c.stdout) \cup Range(c.stderr) \cup {c.result} : t # Null /\ t.by # h}

\* C8: an execute assigns the fresh running record, and once the latest
\* execute of an id that was executed before has ended, the cell of that id
\* holds nothing but what that latest run wrote.
C8_OverwriteSameId ==
    \A id \in DOMAIN cells :
        LET h == lastRun[id] IN
        ( /\ h \in Ended
          /\ \E g \in Invs \ {h} : /\ inv[g].type = "execute" /\ inv[g].id = id
                                   /\ inv[g].pc \notin {"new", "loading"} )
        => Foreign(cells[id], h) = {}

\* C9: at most one loadPyodide call is pending or has produced the runtime
\* instance (so self.cells was assigned {} once), and at most one
\* preloadPackages call went past its guard.
C9_InitializeOnce ==
    /\ Cardinality({h \in Invs : inv[h].init \in {"pending", "ok"}}) <= 1
    /\ Cardinality({r \in Invs : pre[r].pc \notin {"none", "skipped"}}) <= 1

\* a terminate message has been processed
Terminated == \E h \in Invs : inv[h].type = "terminate"

\* C10: every step that ends with a terminate message processed leaves
\* self.cells empty, and a step taken after terminate was processed sends no
\* stdout, stderr, result or kernelState notification.
C10_NothingAfterTerminate ==
    [][Terminated' =>
         /\ DOMAIN cells' = {}
         /\ Terminated => \A i \in DOMAIN outbox' :
                             i > Len(outbox) => outbox'[i].type = "initialized"]_vars

\* C10's case: terminate has been processed while an execute body was between
\* its awaits, and the cell that body had assigned is gone.
C10_Witness ==
    /\ Terminated
    /\ \E h \in InBody : inv[h].id \notin DOMAIN cells

\* C15: at every step of the registry a package name is in at most one of the
\* sets loaded, loading, failed, and a name that leaves loading is in loaded
\* or in failed afterwards.
C15_RegistryDisjoint ==
    [][/\ \A name \in PackageNames :
            Cardinality({k \in {"loaded", "loading", "failed"} :
                           name \in (CASE k = "loaded" -> loaded'
                                       [] k = "loading" -> loading'
                                       [] OTHER -> failed')}) <= 1
       /\ \A name \in loading \ loading' : name \in loaded' \cup failed']_vars

\* the calls of getPackageList that have come back with a list
ListReturned == {c \in 1..MaxListCalls : listCall[c].pc = "returned"}
\* the static default list of the implementation call c ran
DefaultOf(c) == IF listCall[c].impl = "worker" THEN DEFAULT_PACKAGES ELSE DEFAULT_PACKAGES_manager
\* a cache value holds a list younger than the TTL at time t
Young(e, t) == e.kind = "entry" /\ t - e.timestamp < CACHE_EXPIRY_MS

\* C16: a call whose request ended in a non-success status or a malformed
\* payload (a body without a package list included) returned the static
\* default list and wrote nothing to the list cache.
C16_FailedFetchNotCached ==
    \A c \in ListReturned :
        listCall[c].resp \in {"status500", "malformed", "nullbody", "nolist"}
            => /\ listCall[c].result = DefaultOf(c)
               /\ ~listCall[c].wrote

\* C17: a call that found a cached list younger than the TTL returned that list
\* and issued no request; a call issued a request only when it found no cached
\* list or an expired one; no call issued more than one request.
C17_FreshCacheNoRequest ==
    \A c \in 1..MaxListCalls :
        listCall[c].pc # "idle"
            => /\ Young(listCall[c].seen, listCall[c].start)
                    => /\ listCall[c].pc = "returned"
                       /\ listCall[c].result = listCall[c].seen.packages
                       /\ listCall[c].requests = 0
               /\ listCall[c].requests > 0
                    => \/ listCall[c].seen.kind # "entry"
                       \/ listCall[c].start - listCall[c].seen.timestamp >= CACHE_EXPIRY_MS
               /\ listCall[c].requests <= 1

\* C18: a call of either implementation whose request was answered with HTTP
\* 500 returned the 9-item static default list and wrote no cache entry.
C18_Http500DefaultList ==
    \A c \in ListReturned :
        listCall[c].resp = "status500"
            => /\ listCall[c].result = DEFAULT_PACKAGES
               /\ Len(listCall[c].result) = 9
               /\ ~listCall[c].wrote

\* C19: no call of getPackageList ends by throwing or rejecting.
C19_ListNeverFails ==
    \A c \in 1..MaxListCalls : listCall[c].pc # "rejected"

\* the calls of the cached loader whose lookups have all come back
LookedUp == {k \in 1..MaxLoadCalls : loadCall[k].pc \in {"loading", "done"} \/ loadCall[k].called}
\* the names of call k that satisfy test(j), in the order requested
NamesWhere(k, test(_)) ==
    LET idx == SelectSeq([j \in 1..Len(loadCall[k].names) |-> j], test)
    IN  [j \in 1..Len(idx) |-> loadCall[k].names[idx[j]]]

\* C12 as stated: the names handed to the original (network) loader are exactly
\* the requested names that had no record in the store when they were looked
\* up, and the network loader is not called when every requested name had one.
C12_RecordedNeverNetwork ==
    \A k \in LookedUp :
        /\ loadCall[k].handed = NamesWhere(k, LAMBDA j : ~loadCall[k].record[j])
        /\ loadCall[k].called <=> \E j \in 1..Len(loadCall[k].names) : ~loadCall[k].record[j]

\* C12 as amended: the names handed to the original (network) loader are
\* exactly the requested names whose lookup yielded no payload, in the order
\* requested; the network loader is not called when every lookup yielded a
\* payload; and a lookup yields a payload only for a name that has a record.
C12_FoundNeverNetwork ==
    \A k \in LookedUp :
        /\ loadCall[k].handed = NamesWhere(k, LAMBDA j : loadCall[k].found[j] # "data")
        /\ loadCall[k].called <=> \E j \in 1..Len(loadCall[k].names) : loadCall[k].found[j] # "data"
        /\ \A j \in 1..Len(loadCall[k].names) : loadCall[k].found[j] = "data" => loadCall[k].record[j]

\* C12's case: a call that found the wheel of one requested name in the store
\* and handed another requested name to the network loader
C12_Witness ==
    \E k \in LookedUp :
        /\ loadCall[k].called
        /\ \E j \in 1..Len(loadCall[k].names) : loadCall[k].found[j] = "data"

\* C20: none of the store's get, put and clear operations has returned a
\* rejected promise.
C20_StoreNeverRejects == ~storeRejected

\* C11: no micropip.install call of the package manager's installers, and no
\* batch the worker's preload installs, names a package that the runtime's
\* module table held when the installer looked.
C11_LoadedNeverInstalled ==
    /\ \A e \in 1..Len(installLog) :
          \A j \in 1..Len(installLog[e].names) :
              toLowerCase(installLog[e].names[j]) \notin installLog[e].modules
    /\ \A b \in 1..Len(preload.calls) :
          \A j \in 1..Len(preload.calls[b]) :
              toLowerCase(preload.calls[b][j]) \notin preload.installedModules

\* the preload has left its batch loop
PreloadEnded == preload.pc \in {"verify", "done", "failed"}

\* C13: the batch-install calls of the preload are, in order, the contiguous
\* slices of at most 3 names of the list to install, never two of them pending
\* at once, and once the preload that entered its loop with n names has ended
\* there have been exactly ceil(n/3) of them.
C13_BatchBoundary ==
    LET n == Len(preload.packagesToInstall) IN
    /\ preload.pending <= 1
    /\ \A b \in 1..Len(preload.calls) :
          preload.calls[b] = SubSeq(preload.packagesToInstall, 3 * (b - 1) + 1,
                                    IF 3 * b < n THEN 3 * b ELSE n)
    /\ PreloadEnded /\ preload.calls # <<>> => Len(preload.calls) = (n + 2) \div 3

\* C14: whenever no call of the cached loader is in progress window.fetch is
\* the browser's function, and once the worker's preload has finished or
\* failed self.fetch is the worker's own function.
C14_FetchRestored ==
    /\ (\A k \in 1..MaxLoadCalls : loadCall[k].pc \notin {"lookup", "loading"}) => windowFetch = 0
    /\ preload.pc \in {"done", "failed"} => selfFetch = 0

\* C21 as stated: a getCachedPackageWheel(name) that follows a successful
\* cachePackageWheel(name, url, payload), whatever was done to other names in
\* between, returns that payload.
C21_RoundTripAlways ==
    lastGet.before.kind = "put" => lastGet.result = Payload(lastGet.before.data)

\* C21, amended: such a get returns that payload when its lookup reads the
\* store, and returns no payload at all when it cannot read the store.
C21_RoundTrip ==
    lastGet.before.kind = "put" =>
        IF lastGet.outcome = "ok"
        THEN lastGet.result = Payload(lastGet.before.data)
        ELSE lastGet.result.kind # "data"

\* C21's case: a name whose record was overwritten is read back with the
\* later payload, while another name holds a record of its own.
C21_Witness ==
    /\ lastGet.outcome = "ok"
    /\ lastGet.before = Put(Rebuilt(lastGet.name))
    /\ lastGet.result = Payload(Rebuilt(lastGet.name))
    /\ \E x \in DOMAIN wheels : x # lastGet.name

\* C22: a clearPyodideCache() that succeeds leaves a store in which
\* getCachedPackageWheel(name) returns absent for every name that had a
\* record; the store holds no record while nothing has been put since a
\* clear, however often it is cleared again.
C22_ClearEmpties ==
    [][ /\ DOMAIN lastPut' = {} => DOMAIN wheels' = {}
        /\ (DOMAIN lastPut # {} /\ DOMAIN lastPut' = {}) =>
              \A name \in DOMAIN lastPut, o \in StoreOutcomes :
                  getCachedPackageWheel(name, o)' = Absent ]_vars

\* the install call of the batch at preload.i has failed
BatchFailed ==
    /\ preload.pc = "failed"
    /\ preload.calls # <<>>
    /\ preload.i < Len(preload.packagesToInstall)

\* C23: when the install call of a batch fails, every name of that batch is
\* marked failed and the batches after it are installed all the same: the
\* preload ends with one install call made for every batch of three.
C23_FailedBatchIsolated ==
    BatchFailed =>
        /\ \A j \in DOMAIN Batch(preload.packagesToInstall, preload.i) :
              Batch(preload.packagesToInstall, preload.i)[j] \in failed
        /\ Len(preload.calls) = (Len(preload.packagesToInstall) + BATCH_SIZE - 1) \div BATCH_SIZE

\* C24: a call of installMissingPackages makes at most two install attempts
\* and returns normally; when its first attempt has thrown it has gone on to
\* the fallback, whose install is one call with the full list of names; and
\* when the fallback has failed as well, the names are marked failed.
C24_RetryOnce ==
    LET r == installRun
        last == installLog[Len(installLog)]
    IN  r.op = "installMissingPackages" =>
            /\ r.attempts <= 2
            /\ r.pc \in {"check", "micropip", "install", "fallback", "reinstall", "done"}
            /\ r.pc = "done" /\ "install" \in Range(r.thrown) =>
                  \/ "fallback" \in Range(r.thrown)
                  \/ r.attempts = 2 /\ last.names = r.packages
            /\ ( /\ r.pc = "done" /\ "install" \in Range(r.thrown)
                 /\ Range(r.thrown) \cap {"fallback", "reinstall"} # {} ) =>
                  \A j \in DOMAIN r.packages : r.packages[j] \in failed

\* C25: when a call of the cached loader has returned, every requested name
\* whose lookup gave a wheel is in the runtime's set of loaded packages and is
\* marked loaded in the registry, and was not handed to the network loader.
C25_CachedRegistered ==
    \A k \in 1..MaxLoadCalls :
        loadCall[k].pc = "done" =>
            \A j \in DOMAIN loadCall[k].found :
                loadCall[k].found[j] = "data" =>
                    /\ loadCall[k].names[j] \in loadedPackages
                    /\ loadCall[k].names[j] \in loaded
                    /\ loadCall[k].names[j] \notin Range(loadCall[k].handed)

\* C26: every wheel the store holds from the download of a requested package
\* is filed where a later lookup of that requested name finds it.
C26_DownloadFoundLater ==
    \A x \in DOMAIN wheels : wheels[x].url \in DOMAIN wheels

\* C27: window.fetch is never wrapped by more than one wrapper at a time, so
\* a download passes through one capture at most.
C27_OneLayer == Len(FetchChain(windowFetch)) <= 1

\* C28: no response of the original fetch is held back from the loader while
\* the wrapper extracts its bytes and writes them to the store.
C28_WrapperNonBlocking ==
    \A k \in 1..MaxLoadCalls : loadCall[k].capture = ""

\* C29: in both implementations a call that read a cached entry holding a
\* list served that list, without a request, when now - timestamp was below
\* the TTL, and issued a request when now - timestamp was the TTL or more.
C29_TtlBoundary ==
    \A c \in 1..MaxListCalls :
        LET call == listCall[c]
            age == call.start - call.seen.timestamp
        IN  /\ call.pc \in {"fetching", "returned"}
            /\ call.seen.kind = "entry" /\ Len(call.seen.packages) > 0
            =>
                IF age < CACHE_EXPIRY_MS
                THEN /\ call.requests = 0
                     /\ call.pc = "returned"
                     /\ call.result = call.seen.packages
                ELSE call.requests = 1

\* where the run that posted result notification i began in the outbox: after
\* the result notification before it for the same id
RunStart(i) ==
    LET earlier == {j \in 1..(i - 1) : outbox[j].type = "result" /\ outbox[j].id = outbox[i].id}
    IN  IF earlier = {} THEN 0 ELSE CHOOSE j \in earlier : \A e \in earlier : e <= j
\* the messages of the notifications of stream s sent for that id in that run
SentInRun(i, s) ==
    LET q == SelectSeq([j \in 1..(i - 1) |-> j],
                       LAMBDA j : /\ j > RunStart(i) /\ outbox[j].type = s
                                  /\ outbox[j].id = outbox[i].id)
    IN  [n \in DOMAIN q |-> outbox[q[n]].message]

\* C30: the stdout and stderr fields of the CellState snapshot in a result
\* notification are the messages of the stdout and stderr notifications sent
\* for that id in that run, in the order they were sent.
C30_BufferEqualsNotifications ==
    \A i \in DOMAIN outbox :
        outbox[i].type = "result" /\ outbox[i].state # Undefined =>
            \A s \in Streams : outbox[i].state[s] = SentInRun(i, s)

\* C32: every chunk the code of an execute activation has printed was
\* notified with that activation's id, and a chunk stands in no buffer and in
\* no notification of another id.
C32_OutputAttribution ==
    /\ \A h \in Invs : \A n \in 1..inv[h].n :
          \E i \in DOMAIN outbox :
              /\ outbox[i].type \in Streams /\ ~outbox[i].package
              /\ outbox[i].message = Chunk(h, n) /\ outbox[i].id = inv[h].id
    /\ \A i \in DOMAIN outbox :
          (outbox[i].type \in Streams /\ outbox[i].message.src = "chunk") =>
              outbox[i].id = inv[outbox[i].message.by].id
    /\ \A id \in DOMAIN cells, s \in Streams : \A c \in Range(cells[id][s]) :
          c.src = "chunk" => inv[c.by].id = id

\* C31: the store holds one record per name at most, the record of a name is
\* in every field the one built by the call whose put succeeded last for that
\* name, and a name no put has succeeded for has no record.
C31_LastWriterWins ==
    /\ DOMAIN wheels = DOMAIN lastDone
    /\ \A x \in DOMAIN wheels :
          LET call == putCall[lastDone[x]] IN
          /\ call.pc = "resolved" /\ call.name = x
          /\ wheels[x].name = x
          /\ wheels[x].url = call.url
          /\ wheels[x].data = call.data
          /\ wheels[x].timestamp = call.timestamp

\* C31's case: two calls for one name that differ in url and payload were
\* under way together, the one called first built its record later; both
\* have succeeded, and the store holds the record of the one that succeeded
\* last.
C31_Witness ==
    \E c, d \in 1..MaxPuts :
        /\ d < c /\ putCall[c].pc = "resolved" /\ putCall[d].pc = "resolved"
        /\ putCall[c].name = putCall[d].name
        /\ putCall[c].url # putCall[d].url
        /\ putCall[c].data # putCall[d].data
        /\ putCall[c].timestamp < putCall[d].timestamp
        /\ lastDone[putCall[c].name] = d
        /\ wheels[putCall[d].name].data = putCall[d].data
====
